---- MODULE Spec2Model ----
(***************************************************************************)
(* The request handler of Exporter::start (src/src/exporter.rs): the       *)
(* process-wide gauge registry, the routing of a request, the system stats *)
(* refresh, the per-hub refresh and the response.  One worker thread of    *)
(* the HTTP server runs the handler closure for one request at a time; the *)
(* server runs one worker or several, all sharing the registry.            *)
(***************************************************************************)
EXTENDS Integers, Sequences, FiniteSets, TLC

VARIABLES
    hubs,      \* config.hubs: the configured Hub records, in file order
    build,     \* "debug": integer overflow panics; "release": it wraps
    workers,   \* the server's worker threads that run the handler closure
    host,      \* how the OS provider is explored: per call ("fields") or
               \* per request ("whole")
    gauge,     \* the scalar Gauge statics: name -> f64
    vec,       \* the GaugeVec statics: name -> (label value -> f64)
    pc,        \* per worker: its position in the handler closure
    req,       \* per worker: the request it is handling
    idx,       \* per worker: position of the `for hub in hubs.clone()` loop
    nset,      \* per worker: gauges of the current hub already set
    status,    \* per worker: the local `status` of the loop body
    lastCall,  \* per worker: the most recent external call and its result
    results,   \* per worker: the reader calls of this request, in order
    pre,       \* per worker: the hub-keyed families when the request arrived
    resp,      \* per worker: what it answered to its latest request
    quota      \* per worker: requests it may still accept (-1: no limit)

vars == <<hubs, build, workers, host, gauge, vec, pc, req, idx, nset, status,
          lastCall, results, pre, resp, quota>>

----------------------------------------------------------------------------
(* Bounds of the exploration *)

MaxHubs == 2        \* longest configured hub list
MaxBytes == 2       \* largest byte count the OS provider reports
MaxMounts == 2      \* most mounted filesystems the OS provider reports
WordBits == 6       \* width the u64 arithmetic is scaled down to
ConcRequests == 1   \* requests each worker accepts when two workers run

Threads == {1, 2}

----------------------------------------------------------------------------
(* f64 values: <<n, d>> is the rational n/d in lowest terms; every integer *)
(* the model converts is far below 2^53, so `as f64` is exact.             *)

NaN == <<0, 0>>
PosInf == <<1, 0>>

RECURSIVE GCD(_, _)
GCD(a, b) == IF b = 0 THEN a ELSE GCD(b, a % b)

Norm(n, d) == LET g == GCD(n, d) IN <<n \div g, d \div g>>

F(n) == <<n, 1>>

\* a as f64 / b as f64
FDiv(a, b) == IF b = 0 THEN (IF a = 0 THEN NaN ELSE PosInf) ELSE Norm(a, b)

\* x * 100.0
FTimes100(x) == IF x[2] = 0 THEN x ELSE Norm(x[1] * 100, x[2])

InPercentRange(x) == x[2] > 0 /\ 0 <= x[1] /\ x[1] <= 100 * x[2]

----------------------------------------------------------------------------
(* u64 subtraction: a panic with overflow checks on, a wrap without them *)

U64Modulus == 2 ^ WordBits

Overflows(a, b) == b > a

WrappingSub(a, b) == (a - b) % U64Modulus

\* (a - b) as f64 / a as f64 * 100.0
UsedPercent(a, b) == FTimes100(FDiv(WrappingSub(a, b), a))

----------------------------------------------------------------------------
(* The registry *)

HubFamilies ==
    << "softether_up", "softether_online", "softether_sessions",
       "softether_sessions_client", "softether_sessions_bridge",
       "softether_users", "softether_groups", "softether_mac_tables",
       "softether_ip_tables", "softether_logins",
       "softether_outgoing_unicast_packets",
       "softether_outgoing_unicast_bytes",
       "softether_outgoing_broadcast_packets",
       "softether_outgoing_broadcast_bytes",
       "softether_incoming_unicast_packets",
       "softether_incoming_unicast_bytes",
       "softether_incoming_broadcast_packets",
       "softether_incoming_broadcast_bytes" >>

HubFamilySet == {HubFamilies[i] : i \in 1..Len(HubFamilies)}

UserFamilySet == {"softether_user_transfer_bytes", "softether_user_transfer_packets"}

SystemFamilySet ==
    {"system_load_average", "system_network_packets_in", "system_network_packets_out"}

VecNames == HubFamilySet \cup UserFamilySet \cup SystemFamilySet

GaugeNames ==
    {"system_cpu_load", "system_memory_usage", "system_free_disk_space",
     "system_uptime", "system_boot_time"}

Unset == <<>>

\* the value of series `l` of family `f` in the families `v`
Series(v, f, l) == IF l \in DOMAIN v[f] THEN v[f][l] ELSE Unset

\* FAMILY.with_label_values(&[l]).set(x): get or create the series, then set
WithLabelValuesSet(v, f, l, x) ==
    [v EXCEPT ![f] = [k \in DOMAIN v[f] \cup {l} |-> IF k = l THEN x ELSE v[f][k]]]

\* prometheus::gather() and the text encoding: one sample per scalar gauge
\* and per existing series, a family without series contributing nothing
Encode(g, v) ==
    {<<n, "", g[n]>> : n \in GaugeNames}
        \cup UNION {{<<f, l, v[f][l]>> : l \in DOMAIN v[f]} : f \in VecNames}

LANDING_PAGE == "<html>SoftEther Exporter: <a href=/metrics>Metrics</a></html>"

----------------------------------------------------------------------------
(* Configuration *)

NoName == "<None>"

ConfigNames == {NoName, "HUB1", "HUB2"}

Hub == [name : ConfigNames]

\* (variant: an absent name defaults to a placeholder, not to "")
HubNameDefault(hub) == IF hub.name = NoName THEN "default" ELSE hub.name

\* hub.name.unwrap_or(String::from(""))
HubName(hub) == IF hub.name = NoName THEN "" ELSE hub.name

HubLists(n) == UNION {[1..k -> Hub] : k \in 0..n}

----------------------------------------------------------------------------
(* The external collaborators: what a call can return *)

Err == [ok |-> FALSE]
Ok(x) == [ok |-> TRUE, val |-> x]

NoCall == [at |-> "none", api |-> "none", ret |-> Err]
NoResponse == [kind |-> "none"]

\* SoftEtherReader::hub_status: the HubStatus records it is explored with.
\* Within a record every numeric field has a value of its own.
Status1 ==
    [online |-> TRUE, sessions |-> 3, sessions_client |-> 4,
     sessions_bridge |-> 5, users |-> 6, groups |-> 7, mac_tables |-> 8,
     ip_tables |-> 9, logins |-> 10, outgoing_unicast_packets |-> 11,
     outgoing_unicast_bytes |-> 12, outgoing_broadcast_packets |-> 13,
     outgoing_broadcast_bytes |-> 14, incoming_unicast_packets |-> 15,
     incoming_unicast_bytes |-> 16, incoming_broadcast_packets |-> 17,
     incoming_broadcast_bytes |-> 18]

Status2 ==
    [Status1 EXCEPT !.online = FALSE, !.sessions = 30, !.logins = 40,
                    !.incoming_broadcast_bytes = 50]

HubStatus == {Status1, Status2}

ReaderResults == {Err} \cup {Ok(s) : s \in HubStatus}

\* systemstat: load_average, memory, mounts, uptime, boot_time, networks,
\* network_stats
LoadAverages == {[one |-> 1, five |-> 2, fifteen |-> 3]}

Memories == [total : 0..MaxBytes, free : 0..MaxBytes]

Filesystems ==
    {[total |-> 0, avail |-> 0], [total |-> MaxBytes, avail |-> 1],
     [total |-> 1, avail |-> MaxBytes]}

MountLists == UNION {[1..k -> Filesystems] : k \in 0..MaxMounts}

Uptimes == {5}

BootTimes == {9}

NetInterfaces == {"eth0"}

NetworkStats == {[rx_packets |-> 7, tx_packets |-> 8]}

OsValues(api) ==
    CASE api = "load_average" -> LoadAverages
      [] api = "memory" -> Memories
      [] api = "mounts" -> MountLists
      [] api = "uptime" -> Uptimes
      [] api = "boot_time" -> BootTimes
      [] api = "networks" -> SUBSET NetInterfaces
      [] api = "network_stats" -> NetworkStats

\* what a healthy host answers when the host is explored as a whole
Healthy(api) ==
    CASE api = "load_average" -> [one |-> 1, five |-> 2, fifteen |-> 3]
      [] api = "memory" -> [total |-> MaxBytes, free |-> 1]
      [] api = "mounts" -> <<[total |-> MaxBytes, avail |-> 1]>>
      [] api = "uptime" -> 5
      [] api = "boot_time" -> 9
      [] api = "networks" -> NetInterfaces
      [] api = "network_stats" -> [rx_packets |-> 7, tx_packets |-> 8]

\* what a host answers that reports more free memory than it has in total
Skewed(api) ==
    IF api = "memory" THEN [total |-> 1, free |-> MaxBytes] ELSE Healthy(api)

\* the answers worker t can get from the OS provider for `api`: any answer
\* per call (an error or any value), or the answers of a host that is, for
\* the length of the request, healthy or skewed
OsResults(t, api) ==
    IF host = "fields" THEN {Err} \cup {Ok(x) : x \in OsValues(api)}
    ELSE IF req[t].cond = "healthy" THEN {Ok(Healthy(api))}
    ELSE {Ok(Skewed(api))}

RECURSIVE Sum(_, _)
\* mounts.iter().map(|m| m.<field>.as_u64()).sum()
Sum(mounts, field) ==
    IF mounts = <<>> THEN 0
    ELSE mounts[1][field] + Sum(Tail(mounts), field)

----------------------------------------------------------------------------
(* Requests *)

MetricsUri == [kind |-> "AbsolutePath", path |-> "/metrics"]

RequestUris ==
    {MetricsUri,
     [kind |-> "AbsolutePath", path |-> "/"],
     [kind |-> "AbsolutePath", path |-> "/metrics/"],
     [kind |-> "AbsoluteUri", path |-> "/metrics"]}

\* (variant: the path alone is compared, whatever the form of the URI)
IsMetricsRequestLoose(uri) == uri.path = "/metrics"

\* req.uri == RequestUri::AbsolutePath("/metrics".to_string())
IsMetricsRequest(uri) == uri = MetricsUri

Conds == IF host = "fields" THEN {"any"} ELSE {"healthy", "skewed"}

----------------------------------------------------------------------------
(* The state after construction: the lazy_static registry with every      *)
(* scalar gauge at 0 and no series in any family, every worker waiting.   *)

HubVec(v) == [f \in HubFamilySet |-> v[f]]

InitCommon ==
    /\ build \in {"debug", "release"}
    /\ gauge = [n \in GaugeNames |-> F(0)]
    /\ vec = [f \in VecNames |-> <<>>]
    /\ pc = [t \in Threads |-> "idle"]
    /\ req = [t \in Threads |-> [uri |-> MetricsUri, cond |-> "any"]]
    /\ idx = [t \in Threads |-> 0]
    /\ nset = [t \in Threads |-> 0]
    /\ status = [t \in Threads |-> Err]
    /\ lastCall = [t \in Threads |-> NoCall]
    /\ results = [t \in Threads |-> <<>>]
    /\ pre = [t \in Threads |-> HubVec(vec)]
    /\ resp = [t \in Threads |-> NoResponse]

\* one worker, every hub list, the host explored as a whole
Init ==
    /\ InitCommon
    /\ hubs \in HubLists(MaxHubs)
    /\ workers = {1}
    /\ host = "whole"
    /\ quota = [t \in Threads |-> -1]

\* one worker, at most one hub, every answer of the OS provider per call
InitSys ==
    /\ InitCommon
    /\ hubs \in {<<>>, <<[name |-> "HUB1"]>>}
    /\ workers = {1}
    /\ host = "fields"
    /\ quota = [t \in Threads |-> -1]

\* two workers sharing the registry, one hub
InitConc ==
    /\ InitCommon
    /\ hubs = <<[name |-> "HUB1"]>>
    /\ workers = {1, 2}
    /\ host = "whole"
    /\ quota = [t \in Threads |-> ConcRequests]

----------------------------------------------------------------------------
(* The handler closure, one action per statement that reads the outside   *)
(* world or writes the registry.                                           *)

Goto(t, label) == pc' = [pc EXCEPT ![t] = label]

Called(t, at, api, r) ==
    lastCall' = [lastCall EXCEPT ![t] = [at |-> at, api |-> api, ret |-> r]]

\* a panic unwinds the handler: the request gets no response
Panic(t) ==
    /\ Goto(t, "panicked")
    /\ resp' = [resp EXCEPT ![t] = [kind |-> "aborted"]]

\* the worker takes the next request off the listener and routes it
Receive(t) ==
    /\ t \in workers
    /\ pc[t] = "idle"
    /\ quota[t] # 0
    /\ \E uri \in RequestUris, cond \in Conds :
          /\ req' = [req EXCEPT ![t] = [uri |-> uri, cond |-> cond]]
          /\ Goto(t, IF IsMetricsRequest(uri) THEN "cpu_load" ELSE "landing")
    /\ quota' = [quota EXCEPT ![t] = IF @ > 0 THEN @ - 1 ELSE @]
    /\ idx' = [idx EXCEPT ![t] = 0]
    /\ nset' = [nset EXCEPT ![t] = 0]
    /\ status' = [status EXCEPT ![t] = Err]
    /\ lastCall' = [lastCall EXCEPT ![t] = NoCall]
    /\ results' = [results EXCEPT ![t] = <<>>]
    /\ pre' = [pre EXCEPT ![t] = HubVec(vec)]
    /\ resp' = [resp EXCEPT ![t] = NoResponse]
    /\ UNCHANGED <<hubs, build, workers, host, gauge, vec>>

\* if let Ok(load) = sys.load_average() { SYSTEM_CPU_LOAD.set(load.one) }
CpuLoad(t) ==
    /\ t \in workers
    /\ pc[t] = "cpu_load"
    /\ \E r \in OsResults(t, "load_average") :
          /\ Called(t, "cpu_load", "load_average", r)
          /\ gauge' = IF r.ok
                      THEN [gauge EXCEPT !["system_cpu_load"] = F(r.val.one)]
                      ELSE gauge
    /\ Goto(t, "memory")
    /\ UNCHANGED <<hubs, build, workers, host, vec, req, idx, nset, status,
                   results, pre, resp, quota>>

\* if let Ok(mem) = sys.memory() { SYSTEM_MEMORY_USAGE.set(used percent) }
Memory(t) ==
    /\ t \in workers
    /\ pc[t] = "memory"
    /\ \E r \in OsResults(t, "memory") :
          /\ Called(t, "memory", "memory", r)
          /\ IF r.ok /\ Overflows(r.val.total, r.val.free) /\ build = "debug"
             THEN /\ Panic(t)
                  /\ UNCHANGED gauge
             ELSE /\ Goto(t, "mounts")
                  /\ gauge' = IF r.ok
                              THEN [gauge EXCEPT !["system_memory_usage"] =
                                        UsedPercent(r.val.total, r.val.free)]
                              ELSE gauge
                  /\ UNCHANGED resp
    /\ UNCHANGED <<hubs, build, workers, host, vec, req, idx, nset, status,
                   results, pre, quota>>

\* if let Ok(mounts) = sys.mounts() { SYSTEM_FREE_DISK_SPACE.set(used percent) }
Mounts(t) ==
    /\ t \in workers
    /\ pc[t] = "mounts"
    /\ \E r \in OsResults(t, "mounts") :
          LET total_space == Sum(r.val, "total")
              total_free == Sum(r.val, "avail")
          IN  /\ Called(t, "mounts", "mounts", r)
              /\ IF r.ok /\ Overflows(total_space, total_free) /\ build = "debug"
                 THEN /\ Panic(t)
                      /\ UNCHANGED gauge
                 ELSE /\ Goto(t, "load_average")
                      /\ gauge' = IF r.ok
                                  THEN [gauge EXCEPT !["system_free_disk_space"] =
                                            UsedPercent(total_space, total_free)]
                                  ELSE gauge
                      /\ UNCHANGED resp
    /\ UNCHANGED <<hubs, build, workers, host, vec, req, idx, nset, status,
                   results, pre, quota>>

\* the three series a successful load_average call sets
LoadSeries(v, load) ==
    WithLabelValuesSet(
        WithLabelValuesSet(
            WithLabelValuesSet(v, "system_load_average", "1_min", F(load.one)),
            "system_load_average", "5_min", F(load.five)),
        "system_load_average", "15_min", F(load.fifteen))

\* if let Ok(load_avg) = sys.load_average() { SYSTEM_LOAD_AVERAGE ... }
LoadAverage(t) ==
    /\ t \in workers
    /\ pc[t] = "load_average"
    /\ \E r \in OsResults(t, "load_average") :
          /\ Called(t, "load_average", "load_average", r)
          /\ vec' = IF r.ok THEN LoadSeries(vec, r.val) ELSE vec
    /\ Goto(t, "uptime")
    /\ UNCHANGED <<hubs, build, workers, host, gauge, req, idx, nset, status,
                   results, pre, resp, quota>>

\* if let Ok(uptime) = sys.uptime() { SYSTEM_UPTIME.set(uptime.as_secs()) }
Uptime(t) ==
    /\ t \in workers
    /\ pc[t] = "uptime"
    /\ \E r \in OsResults(t, "uptime") :
          /\ Called(t, "uptime", "uptime", r)
          /\ gauge' = IF r.ok
                      THEN [gauge EXCEPT !["system_uptime"] = F(r.val)]
                      ELSE gauge
    /\ Goto(t, "boot_time")
    /\ UNCHANGED <<hubs, build, workers, host, vec, req, idx, nset, status,
                   results, pre, resp, quota>>

\* if let Ok(boot_time) = sys.boot_time() { SYSTEM_BOOT_TIME.set(timestamp) }
BootTime(t) ==
    /\ t \in workers
    /\ pc[t] = "boot_time"
    /\ \E r \in OsResults(t, "boot_time") :
          /\ Called(t, "boot_time", "boot_time", r)
          /\ gauge' = IF r.ok
                      THEN [gauge EXCEPT !["system_boot_time"] = F(r.val)]
                      ELSE gauge
    /\ Goto(t, "networks")
    /\ UNCHANGED <<hubs, build, workers, host, vec, req, idx, nset, status,
                   results, pre, resp, quota>>

\* the series of family f after the per-interface loop: stats[i] is what
\* network_stats answered for interface i, `field` the counter f shows
NetSeries(v, f, stats, field) ==
    LET written == {i \in DOMAIN stats : stats[i].ok}
    IN  [v EXCEPT ![f] = [k \in DOMAIN v[f] \cup written |->
                             IF k \in written THEN F(stats[k].val[field])
                             ELSE v[f][k]]]

\* where the handler goes once i hubs are done: the next pass of the loop,
\* or past it
AfterHub(i) == IF i < Len(hubs) THEN "hub_status" ELSE "encode"

\* if let Ok(networks) = sys.networks() { for each interface:
\*     if let Ok(stats) = sys.network_stats(name) { set in and out } }
Networks(t) ==
    /\ t \in workers
    /\ pc[t] = "networks"
    /\ \E r \in OsResults(t, "networks") :
          \E stats \in [(IF r.ok THEN r.val ELSE {}) -> OsResults(t, "network_stats")] :
             /\ Called(t, "networks", "networks", IF r.ok THEN Ok(stats) ELSE Err)
             /\ vec' = NetSeries(
                           NetSeries(vec, "system_network_packets_in", stats, "rx_packets"),
                           "system_network_packets_out", stats, "tx_packets")
    /\ Goto(t, AfterHub(0))
    /\ UNCHANGED <<hubs, build, workers, host, gauge, req, idx, nset, status,
                   results, pre, resp, quota>>

\* (variant: the client and bridge session counts are exchanged)
StatusFieldSwapped(k) ==
    CASE k = 3 -> "sessions"
      [] k = 4 -> "sessions_bridge"
      [] k = 5 -> "sessions_client"
      [] k = 6 -> "users"
      [] k = 7 -> "groups"
      [] k = 8 -> "mac_tables"
      [] k = 9 -> "ip_tables"
      [] k = 10 -> "logins"
      [] k = 11 -> "outgoing_unicast_packets"
      [] k = 12 -> "outgoing_unicast_bytes"
      [] k = 13 -> "outgoing_broadcast_packets"
      [] k = 14 -> "outgoing_broadcast_bytes"
      [] k = 15 -> "incoming_unicast_packets"
      [] k = 16 -> "incoming_unicast_bytes"
      [] k = 17 -> "incoming_broadcast_packets"
      [] k = 18 -> "incoming_broadcast_bytes"

\* the field of `status` that the k-th statement of the loop body passes to
\* set(), for the statements after UP and ONLINE
StatusField(k) ==
    CASE k = 3 -> "sessions"
      [] k = 4 -> "sessions_client"
      [] k = 5 -> "sessions_bridge"
      [] k = 6 -> "users"
      [] k = 7 -> "groups"
      [] k = 8 -> "mac_tables"
      [] k = 9 -> "ip_tables"
      [] k = 10 -> "logins"
      [] k = 11 -> "outgoing_unicast_packets"
      [] k = 12 -> "outgoing_unicast_bytes"
      [] k = 13 -> "outgoing_broadcast_packets"
      [] k = 14 -> "outgoing_broadcast_bytes"
      [] k = 15 -> "incoming_unicast_packets"
      [] k = 16 -> "incoming_unicast_bytes"
      [] k = 17 -> "incoming_broadcast_packets"
      [] k = 18 -> "incoming_broadcast_bytes"

\* the value the k-th statement of the loop body sets HubFamilies[k] to
GaugeValue(k, st) ==
    CASE k = 1 -> F(1)
      [] k = 2 -> IF st.online THEN F(1) ELSE F(0)
      [] OTHER -> F(st[StatusField(k)])

\* (variant: a failed read zeroes every gauge of the hub)
ReadFailedZeroing(v, name) ==
    [f \in DOMAIN v |->
        IF f \in HubFamilySet
        THEN [k \in DOMAIN v[f] \cup {name} |-> IF k = name THEN F(0) ELSE v[f][k]]
        ELSE v[f]]

\* Err(x) => { UP.with_label_values(&[&name]).set(0.0); println!(..); .. }
ReadFailed(v, name) == WithLabelValuesSet(v, "softether_up", name, F(0))

\* (variant: a failed read leaves the loop)
AfterFailureBreak(i) == "encode"

\* Err(x) => { ..; continue }: on to the hub after the i-th
AfterFailure(i) == AfterHub(i)

\* let name = hub.name.unwrap_or(""); match SoftEtherReader::hub_status(..)
HubStatusCall(t) ==
    /\ t \in workers
    /\ pc[t] = "hub_status"
    /\ LET i == idx[t] + 1
           name == HubName(hubs[i])
       IN  \E r \in ReaderResults :
              /\ Called(t, "hub_status", name, r)
              /\ results' = [results EXCEPT ![t] = Append(@, [hub |-> name, ret |-> r])]
              /\ idx' = [idx EXCEPT ![t] = i]
              /\ nset' = [nset EXCEPT ![t] = 0]
              /\ IF r.ok
                 THEN /\ status' = [status EXCEPT ![t] = r.val]
                      /\ Goto(t, "set")
                      /\ UNCHANGED vec
                 ELSE /\ vec' = ReadFailed(vec, name)
                      /\ Goto(t, AfterFailure(i))
                      /\ UNCHANGED status
    /\ UNCHANGED <<hubs, build, workers, host, gauge, req, pre, resp, quota>>

\* the next of the eighteen FAMILY.with_label_values(&[&name]).set(..)
SetGauge(t) ==
    /\ t \in workers
    /\ pc[t] = "set"
    /\ LET k == nset[t] + 1
           name == HubName(hubs[idx[t]])
       IN  /\ vec' = WithLabelValuesSet(vec, HubFamilies[k], name,
                                        GaugeValue(k, status[t]))
           /\ nset' = [nset EXCEPT ![t] = k]
           /\ Goto(t, IF k = Len(HubFamilies) THEN AfterHub(idx[t]) ELSE "set")
    /\ UNCHANGED <<hubs, build, workers, host, gauge, req, idx, status,
                   lastCall, results, pre, resp, quota>>

\* prometheus::gather(), encoder.encode(..), res.send(&buffer)
EncodeMetrics(t) ==
    /\ t \in workers
    /\ pc[t] = "encode"
    /\ resp' = [resp EXCEPT ![t] = [kind |-> "metrics", body |-> Encode(gauge, vec)]]
    /\ Goto(t, "sleep")
    /\ UNCHANGED <<hubs, build, workers, host, gauge, vec, req, idx, nset,
                   status, lastCall, results, pre, quota>>

\* res.send(LANDING_PAGE.as_bytes())
Landing(t) ==
    /\ t \in workers
    /\ pc[t] = "landing"
    /\ resp' = [resp EXCEPT ![t] = [kind |-> "landing", body |-> LANDING_PAGE]]
    /\ Goto(t, "sleep")
    /\ UNCHANGED <<hubs, build, workers, host, gauge, vec, req, idx, nset,
                   status, lastCall, results, pre, quota>>

\* thread::sleep(Duration::from_millis(sleep)), then back to the listener
Sleep(t) ==
    /\ t \in workers
    /\ pc[t] = "sleep"
    /\ Goto(t, "idle")
    /\ UNCHANGED <<hubs, build, workers, host, gauge, vec, req, idx, nset,
                   status, lastCall, results, pre, resp, quota>>

\* the server replaces a worker whose handler panicked
Respawn(t) ==
    /\ t \in workers
    /\ pc[t] = "panicked"
    /\ Goto(t, "idle")
    /\ UNCHANGED <<hubs, build, workers, host, gauge, vec, req, idx, nset,
                   status, lastCall, results, pre, resp, quota>>

Next ==
    \E t \in Threads :
       \/ Receive(t)
       \/ CpuLoad(t)
       \/ Memory(t)
       \/ Mounts(t)
       \/ LoadAverage(t)
       \/ Uptime(t)
       \/ BootTime(t)
       \/ Networks(t)
       \/ HubStatusCall(t)
       \/ SetGauge(t)
       \/ EncodeMetrics(t)
       \/ Landing(t)
       \/ Sleep(t)
       \/ Respawn(t)

Spec == Init /\ [][Next]_vars

SpecSys == InitSys /\ [][Next]_vars

SpecConc == InitConc /\ [][Next]_vars

----------------------------------------------------------------------------
(* Properties *)

Up == "softether_up"

\* worker t has answered a /metrics request and not yet gone back to listen
Refreshed(t) == t \in workers /\ pc[t] = "sleep" /\ IsMetricsRequest(req[t].uri)

\* the hub-keyed gauge that carries a field of the status record
GaugeOfField ==
    [sessions |-> "softether_sessions",
     sessions_client |-> "softether_sessions_client",
     sessions_bridge |-> "softether_sessions_bridge",
     users |-> "softether_users",
     groups |-> "softether_groups",
     mac_tables |-> "softether_mac_tables",
     ip_tables |-> "softether_ip_tables",
     logins |-> "softether_logins",
     outgoing_unicast_packets |-> "softether_outgoing_unicast_packets",
     outgoing_unicast_bytes |-> "softether_outgoing_unicast_bytes",
     outgoing_broadcast_packets |-> "softether_outgoing_broadcast_packets",
     outgoing_broadcast_bytes |-> "softether_outgoing_broadcast_bytes",
     incoming_unicast_packets |-> "softether_incoming_unicast_packets",
     incoming_unicast_bytes |-> "softether_incoming_unicast_bytes",
     incoming_broadcast_packets |-> "softether_incoming_broadcast_packets",
     incoming_broadcast_bytes |-> "softether_incoming_broadcast_bytes"]

\* the hub's gauges other than up show the record s, field by field
ShowsRecord(v, name, s) ==
    /\ Series(v, "softether_online", name) = (IF s.online THEN F(1) ELSE F(0))
    /\ \A fld \in DOMAIN GaugeOfField :
          Series(v, GaugeOfField[fld], name) = F(s[fld])

\* the hub has no gauge other than up
ShowsNothing(v, name) ==
    \A f \in HubFamilySet \ {Up} : Series(v, f, name) = Unset

\* the hub's gauges other than up are those of the families w
SameAsIn(v, w, name) ==
    \A f \in HubFamilySet \ {Up} : Series(v, f, name) = Series(w, f, name)

\* the positions of the configured list that carry the name
Entries(name) == {j \in 1..Len(hubs) : hubs[j].name = name
                     \/ (hubs[j].name = NoName /\ name = "")}

\* what a failed read must leave behind for the hub of results[t][i]
FailureKept(t, i) ==
    LET name == results[t][i].hub
    IN  /\ Series(vec, Up, name) = F(0)
        /\ SameAsIn(vec, pre[t], name)

\* C1 as stated: after a refresh, every hub whose read failed has up = 0 and
\* its other gauges exactly as they were before the refresh.
C1_AsStated ==
    \A t \in workers :
       Refreshed(t) =>
          \A i \in 1..Len(results[t]) :
             ~results[t][i].ret.ok => FailureKept(t, i)

\* C1 (amended): after a refresh, every hub whose read failed and whose name
\* no other entry of the configured list carries has up = 0 and its other
\* gauges exactly as they were before the refresh (unset if never set).
C1_FailedHubKeepsGauges ==
    \A t \in workers :
       Refreshed(t) =>
          \A i \in 1..Len(results[t]) :
             (~results[t][i].ret.ok /\ Cardinality(Entries(results[t][i].hub)) = 1)
                => FailureKept(t, i)

\* a refresh in which the read of a hub failed that an earlier refresh had
\* read successfully
C1_Witness ==
    \E i \in 1..Len(results[1]) :
       /\ Refreshed(1)
       /\ ~results[1][i].ret.ok
       /\ Cardinality(Entries(results[1][i].hub)) = 1
       /\ Series(pre[1], Up, results[1][i].hub) = F(1)
       /\ Series(vec, "softether_sessions", results[1][i].hub) = F(30)

\* what a successful read must leave behind for the hub of results[t][i]
SuccessShown(t, i) ==
    LET name == results[t][i].hub
    IN  /\ Series(vec, Up, name) = F(1)
        /\ ShowsRecord(vec, name, results[t][i].ret.val)

\* C2 as stated: after a refresh, every hub whose read succeeded with record
\* S has up = 1 and every other gauge equal to the same-named field of S.
C2_AsStated ==
    \A t \in workers :
       Refreshed(t) =>
          \A i \in 1..Len(results[t]) :
             results[t][i].ret.ok => SuccessShown(t, i)

\* C2 (amended): after a refresh, every hub whose read succeeded with record
\* S and whose name no later entry of the configured list carries has up = 1,
\* online = 1 or 0 as S.online, and every count and transfer gauge equal to
\* the same-named field of S.
C2_ReadHubShowsRecord ==
    \A t \in workers :
       Refreshed(t) =>
          \A i \in 1..Len(results[t]) :
             (results[t][i].ret.ok
                 /\ \A j \in (i + 1)..Len(results[t]) :
                       results[t][j].hub # results[t][i].hub)
                => SuccessShown(t, i)

\* a refresh that overwrote the record of an earlier refresh
C2_Witness ==
    \E i \in 1..Len(results[1]) :
       /\ Refreshed(1)
       /\ results[1][i].ret = Ok(Status2)
       /\ \A j \in (i + 1)..Len(results[1]) : results[1][j].hub # results[1][i].hub
       /\ ShowsRecord(pre[1], results[1][i].hub, Status1)

\* C3: in a refresh the reader is called for the configured hubs in list
\* order, one call per entry whatever the earlier calls returned; when the
\* loop is left every entry has been called, and each hub shows the outcome
\* of the last call made for its name.
C3_EveryHubQueried ==
    \A t \in workers :
       /\ Len(results[t]) <= Len(hubs)
       /\ \A i \in 1..Len(results[t]) :
             results[t][i].hub = (IF hubs[i].name = NoName THEN "" ELSE hubs[i].name)
       /\ (pc[t] \in {"hub_status", "set"} /\ IsMetricsRequest(req[t].uri))
             => Len(results[t]) = idx[t]
       /\ (pc[t] \in {"encode", "sleep"} /\ IsMetricsRequest(req[t].uri))
             => /\ Len(results[t]) = Len(hubs)
                /\ \A i \in 1..Len(hubs) :
                      (\A j \in (i + 1)..Len(hubs) : results[t][j].hub # results[t][i].hub)
                         => Series(vec, Up, results[t][i].hub)
                               = (IF results[t][i].ret.ok THEN F(1) ELSE F(0))

\* a refresh whose first read failed and whose second read succeeded
C3_Witness ==
    /\ Refreshed(1)
    /\ Len(results[1]) = 2
    /\ ~results[1][1].ret.ok
    /\ results[1][2].ret = Ok(Status1)
    /\ results[1][1].hub # results[1][2].hub
    /\ ShowsRecord(vec, results[1][2].hub, Status1)

\* C4: a request for anything but exactly /metrics is answered with the
\* landing page, calls no external collaborator and changes no gauge; a
\* request for /metrics calls the reader once per configured hub.
C4_OnlyMetricsRefreshes ==
    /\ [](\A t \in workers :
             /\ (pc[t] = "sleep" /\ ~(req[t].uri = MetricsUri))
                   => /\ resp[t] = [kind |-> "landing", body |-> LANDING_PAGE]
                      /\ results[t] = <<>>
                      /\ lastCall[t] = NoCall
             /\ (pc[t] = "sleep" /\ req[t].uri = MetricsUri)
                   => /\ resp[t].kind = "metrics"
                      /\ Len(results[t]) = Len(hubs))
    /\ [][(\A t \in workers : ~(req'[t].uri = MetricsUri))
             => (gauge' = gauge /\ vec' = vec)]_vars

\* a request for /metrics in another form of URI, answered after an
\* earlier refresh had set gauges
C4_Witness ==
    /\ pc[1] = "sleep"
    /\ req[1].uri = [kind |-> "AbsoluteUri", path |-> "/metrics"]
    /\ resp[1].kind = "landing"
    /\ DOMAIN vec[Up] # {}

\* C6: the hub label values of softether_up (and of every hub-keyed family)
\* are names of configured hubs, an absent name counting as "", so they are
\* never more than the configured hubs.
C6_LabelsAreConfiguredHubs ==
    \A f \in HubFamilySet :
       /\ DOMAIN vec[f] \subseteq
             {IF hubs[i].name = NoName THEN "" ELSE hubs[i].name : i \in 1..Len(hubs)}
       /\ Cardinality(DOMAIN vec[f]) <= Len(hubs)

\* a second refresh of a two-hub configuration that already had two series
C6_Witness ==
    /\ Refreshed(1)
    /\ Len(hubs) = 2
    /\ Cardinality(DOMAIN pre[1][Up]) = 2
    /\ Cardinality(DOMAIN vec[Up]) = 2

\* C5 as stated: no request is aborted, and a /metrics request is answered
\* with the encoding of the current gauges.
C5_AlwaysAnswered ==
    \A t \in workers :
       /\ pc[t] # "panicked"
       /\ resp[t].kind # "aborted"
       /\ Refreshed(t) => resp[t] = [kind |-> "metrics", body |-> Encode(gauge, vec)]

\* C7 as stated: right after a successful mounts query whose total space
\* sums to 0, system_free_disk_space is 0 and the handler has not panicked.
C7_ZeroTotalGivesZero ==
    \A t \in workers :
       (/\ lastCall[t].at = "mounts"
        /\ lastCall[t].ret.ok
        /\ Sum(lastCall[t].ret.val, "total") = 0)
          => /\ pc[t] # "panicked"
             /\ gauge["system_free_disk_space"] = F(0)

\* C8 as stated: right after a successful memory query with total > 0,
\* system_memory_usage lies in 0..100 and the handler has not panicked.
C8_MemoryUsageInRange ==
    \A t \in workers :
       (/\ lastCall[t].at = "memory"
        /\ lastCall[t].ret.ok
        /\ lastCall[t].ret.val.total > 0)
          => /\ pc[t] # "panicked"
             /\ InPercentRange(gauge["system_memory_usage"])

SysSteps ==
    {"cpu_load", "memory", "mounts", "load_average", "uptime", "boot_time", "networks"}

\* where the handler goes after a host-level figure
Following(step) ==
    CASE step = "cpu_load" -> "memory"
      [] step = "memory" -> "mounts"
      [] step = "mounts" -> "load_average"
      [] step = "load_average" -> "uptime"
      [] step = "uptime" -> "boot_time"
      [] step = "boot_time" -> "networks"
      [] step = "networks" -> IF Len(hubs) > 0 THEN "hub_status" ELSE "encode"

\* the gauges and families a host-level figure owns
FigureGauges(step) ==
    CASE step = "cpu_load" -> {"system_cpu_load"}
      [] step = "memory" -> {"system_memory_usage"}
      [] step = "mounts" -> {"system_free_disk_space"}
      [] step = "uptime" -> {"system_uptime"}
      [] step = "boot_time" -> {"system_boot_time"}
      [] OTHER -> {}

FigureFamilies(step) ==
    CASE step = "load_average" -> {"system_load_average"}
      [] step = "networks" -> {"system_network_packets_in", "system_network_packets_out"}
      [] OTHER -> {}

\* the figure of `step`, answered Ok(x), is in the registry g, v
FigureWritten(step, x, g, v) ==
    CASE step = "cpu_load" -> g["system_cpu_load"] = F(x.one)
      [] step = "memory" ->
            (x.total > 0 /\ x.free <= x.total)
               => g["system_memory_usage"] = Norm((x.total - x.free) * 100, x.total)
      [] step = "mounts" ->
            (Sum(x, "total") > 0 /\ Sum(x, "avail") <= Sum(x, "total"))
               => g["system_free_disk_space"]
                     = Norm((Sum(x, "total") - Sum(x, "avail")) * 100, Sum(x, "total"))
      [] step = "load_average" ->
            /\ Series(v, "system_load_average", "1_min") = F(x.one)
            /\ Series(v, "system_load_average", "5_min") = F(x.five)
            /\ Series(v, "system_load_average", "15_min") = F(x.fifteen)
      [] step = "uptime" -> g["system_uptime"] = F(x)
      [] step = "boot_time" -> g["system_boot_time"] = F(x)
      [] step = "networks" ->
            \A i \in DOMAIN x :
               x[i].ok =>
                  /\ Series(v, "system_network_packets_in", i) = F(x[i].val.rx_packets)
                  /\ Series(v, "system_network_packets_out", i) = F(x[i].val.tx_packets)

\* C9 as stated: every step that fetches a host-level figure leaves the
\* gauges of the other figures alone, leaves its own gauge alone when the
\* call failed and writes it when the call succeeded, goes on to the next
\* figure (after the last one, to the hub collector), and removes no series.
C9_FiguresIndependent ==
    [][\A t \in workers :
          (pc[t] \in SysSteps /\ pc'[t] # pc[t]) =>
             /\ pc'[t] = Following(pc[t])
             /\ ~lastCall'[t].ret.ok => (gauge' = gauge /\ vec' = vec)
             /\ lastCall'[t].ret.ok
                   => FigureWritten(pc[t], lastCall'[t].ret.val, gauge', vec')
             /\ \A n \in GaugeNames \ FigureGauges(pc[t]) : gauge'[n] = gauge[n]
             /\ \A f \in VecNames \ FigureFamilies(pc[t]) : vec'[f] = vec[f]
             /\ \A f \in VecNames : DOMAIN vec[f] \subseteq DOMAIN vec'[f]]_vars

\* no worker is between the first and the last set() of the hub `name`
NotWriting(name) ==
    \A t \in workers :
       ~(pc[t] = "set" /\ hubs[idx[t]].name \in {name, IF name = "" THEN NoName ELSE name})

\* C10 as stated: whenever no refresh is in the middle of writing a hub, the
\* hub's online, count and transfer gauges are those of one single record
\* the reader returned (or all unset), and up = 1 comes with a whole record.
C10_NoTornRecord ==
    \A i \in 1..Len(hubs) :
       LET name == IF hubs[i].name = NoName THEN "" ELSE hubs[i].name
       IN  NotWriting(name) =>
              /\ \/ ShowsNothing(vec, name)
                 \/ \E s \in HubStatus : ShowsRecord(vec, name, s)
              /\ Series(vec, Up, name) = F(1)
                    => \E s \in HubStatus : ShowsRecord(vec, name, s)

====
